---- MODULE Spec2Model ----
(***************************************************************************)
(* Model of streamlit_app.py: the Claude -> Gemini chat export converter.  *)
(*                                                                         *)
(* JSON objects (Python dicts) are functions whose DOMAIN is the set of    *)
(* keys present; a JSON scalar that the code calls a method on is a tagged *)
(* value [t |-> "str" | "null" | "list", v |-> <value>] so that a null     *)
(* can be told from a string or a list, as Python does at run time.        *)
(* Python exceptions are modelled by pc = "raised" and exc naming the      *)
(* exception class.                                                        *)
(***************************************************************************)
EXTENDS Integers, Sequences, FiniteSets, TLC

VARIABLES
    caller,           \* "call": convert_claude_to_gemini invoked directly; "upload": through the page script
    file_name,        \* uploaded_file.name
    source_data,      \* the parsed JSON document, tagged with its JSON kind
    pc,               \* position of the script / of convert_claude_to_gemini
    mi,               \* number of messages the outer for loop has taken
    si,               \* number of segments the inner for loop has taken in the current message
    role,             \* local `role` of the current message
    chunks,           \* converted["chunkedPrompt"]["chunks"]
    token_stats,      \* local `token_stats`
    exc,              \* class of the exception in flight, "" when none
    preview,          \* what the source data preview displayed
    ui,               \* what the page shows at the end of the run
    output_filename   \* file_name of the download button, "" when none is offered

vars == <<caller, file_name, source_data, pc, mi, si, role, chunks, token_stats,
          exc, preview, ui, output_filename>>

-----------------------------------------------------------------------------
(* Bounds of the explored inputs *)

MaxMsgs == 2      \* messages per document
MaxSegs == 2      \* content segments per document, over all its messages
MaxPieces == 3    \* pieces an uploaded file name is assembled from

-----------------------------------------------------------------------------
(* JSON values *)

JStr(s) == [t |-> "str", v |-> s]
JNull == [t |-> "null", v |-> ""]
JList(items) == [t |-> "list", v |-> items]

\* dict.get(key, default)
get(d, key, default) == IF key \in DOMAIN d THEN d[key] ELSE default

\* d[key] = value on a dict
setitem(d, key, value) ==
    [k \in DOMAIN d \cup {key} |-> IF k = key THEN value ELSE d[k]]

-----------------------------------------------------------------------------
(* str.strip(): removes leading and trailing whitespace characters *)

Whitespace == {" ", "\t"}

LastChar(s) == SubSeq(s, Len(s), Len(s))

RECURSIVE lstrip(_)
lstrip(s) ==
    IF s = "" THEN ""
    ELSE IF Head(s) \in Whitespace THEN lstrip(Tail(s)) ELSE s

RECURSIVE rstrip(_)
rstrip(s) ==
    IF s = "" THEN ""
    ELSE IF LastChar(s) \in Whitespace THEN rstrip(SubSeq(s, 1, Len(s) - 1)) ELSE s

strip_lonly(s) == lstrip(s)
strip(s) == rstrip(lstrip(s))

-----------------------------------------------------------------------------
(* Tokenizer.  enc.encode is tiktoken's cl100k_base encoder; its length is *)
(* abstracted to the number of pieces its pre-tokenizer cuts the text      *)
(* into: one per word (a word takes the whitespace character before it),   *)
(* plus one for every whitespace character left over.                      *)

RECURSIVE encode_len(_, _)
encode_len(s, prevSpace) ==
    IF s = "" THEN (IF prevSpace THEN 1 ELSE 0)
    ELSE IF Head(s) \in Whitespace
         THEN (IF prevSpace THEN 1 ELSE 0) + encode_len(Tail(s), TRUE)
         ELSE IF Len(s) > 1 /\ SubSeq(s, 2, 2) \notin Whitespace
              THEN encode_len(Tail(s), prevSpace)
              ELSE 1 + encode_len(Tail(s), FALSE)

count_tokens(text) ==
    IF text = "" THEN 0 ELSE encode_len(text, FALSE)

-----------------------------------------------------------------------------
(* convert_claude_to_gemini: the pieces of the loop body *)

\* token_stats as created before the traversal
ZeroStats ==
    [total_tokens |-> 0, user_tokens |-> 0, model_tokens |-> 0,
     thinking_tokens |-> 0, message_count |-> 0, has_thinking |-> FALSE]

\* role = "user" if msg["sender"] == "human" else "model"
role_of(sender) == IF sender = "human" THEN "user" ELSE "model"

\* the statistics updates of the thinking branch
thinking_stats_no_flag(stats, token_count) ==
    [stats EXCEPT !.total_tokens = @ + token_count,
                  !.thinking_tokens = @ + token_count]
thinking_stats_as_model(stats, token_count) ==
    [stats EXCEPT !.has_thinking = TRUE,
                  !.total_tokens = @ + token_count,
                  !.model_tokens = @ + token_count]
thinking_stats(stats, token_count) ==
    [stats EXCEPT !.has_thinking = TRUE,
                  !.total_tokens = @ + token_count,
                  !.thinking_tokens = @ + token_count]

\* the statistics updates of the text branch
text_stats_no_total(stats, r, token_count) ==
    IF r = "user"
    THEN [stats EXCEPT !.user_tokens = @ + token_count]
    ELSE [stats EXCEPT !.model_tokens = @ + token_count]
text_stats(stats, r, token_count) ==
    IF r = "user"
    THEN [stats EXCEPT !.total_tokens = @ + token_count,
                       !.user_tokens = @ + token_count]
    ELSE [stats EXCEPT !.total_tokens = @ + token_count,
                       !.model_tokens = @ + token_count]

\* the chunk appended by the thinking branch
thinking_chunk(text, r, token_count) ==
    [text |-> text, role |-> r, isThought |-> TRUE, tokenCount |-> token_count]

\* the chunk appended by the text branch
text_chunk_always_stop(text, r, token_count) ==
    setitem([text |-> text, role |-> r, tokenCount |-> token_count],
            "finishReason", "STOP")
text_chunk(text, r, token_count) ==
    LET chunk == [text |-> text, role |-> r, tokenCount |-> token_count]
    IN  IF r = "model" THEN setitem(chunk, "finishReason", "STOP") ELSE chunk

\* converted["chunkedPrompt"]["chunks"].append(chunk)
append_front(cs, chunk) == <<chunk>> \o cs
append(cs, chunk) == Append(cs, chunk)

\* One pass of the body of `for segment in ...` on the accumulated
\* chunks and statistics: the new chunks and statistics, and the class of
\* the exception the body raises ("" when it raises none).
segment_body(cs, stats, r, segment) ==
    LET same == [chunks |-> cs, stats |-> stats, exc |-> ""]
        fail(e) == [chunks |-> cs, stats |-> stats, exc |-> e]
    IN
    IF "type" \notin DOMAIN segment THEN fail("KeyError")
    ELSE IF segment["type"] = "thinking" THEN
        LET raw == get(segment, "thinking", JStr("")) IN
        IF raw.t # "str" THEN fail("AttributeError")
        ELSE LET text == strip(raw.v) IN
             IF text # ""
             THEN LET token_count == count_tokens(text) IN
                  [chunks |-> append(cs, thinking_chunk(text, r, token_count)),
                   stats |-> thinking_stats(stats, token_count),
                   exc |-> ""]
             ELSE same
    ELSE IF segment["type"] = "text" THEN
        LET raw == get(segment, "text", JStr("")) IN
        IF raw.t # "str" THEN fail("AttributeError")
        ELSE LET text == strip(raw.v) IN
             IF text # ""
             THEN LET token_count == count_tokens(text) IN
                  [chunks |-> append(cs, text_chunk(text, r, token_count)),
                   stats |-> text_stats(stats, r, token_count),
                   exc |-> ""]
             ELSE same
    ELSE same

\* the guard of convert_claude_to_gemini
is_valid_source_any_dict(src) == src.t = "dict"
is_valid_source(src) == src.t = "dict" /\ "chat_messages" \in DOMAIN src.v

\* the messages the outer loop iterates over
Messages == get(source_data.v, "chat_messages", <<>>)

\* the segments the inner loop iterates over, for a message whose content is a list
Content(msg) == get(msg, "content", JList(<<>>)).v

\* convert_claude_to_gemini as a function of its argument: the chunks and
\* statistics it has built when it returns or raises, and the class of the
\* exception it raises ("" when it returns).
RECURSIVE fold_segments(_, _, _)
fold_segments(acc, r, segs) ==
    IF segs = <<>> \/ acc.exc # "" THEN acc
    ELSE fold_segments(segment_body(acc.chunks, acc.stats, r, Head(segs)), r, Tail(segs))

RECURSIVE fold_messages(_, _)
fold_messages(acc, msgs) ==
    IF msgs = <<>> \/ acc.exc # "" THEN acc
    ELSE LET msg == Head(msgs) IN
         IF "sender" \notin DOMAIN msg THEN [acc EXCEPT !.exc = "KeyError"]
         ELSE LET counted == [acc EXCEPT !.stats.message_count = @ + 1]
                  content == get(msg, "content", JList(<<>>))
              IN  IF content.t # "list" THEN [counted EXCEPT !.exc = "TypeError"]
                  ELSE fold_messages(
                           fold_segments(counted, role_of(msg["sender"]), content.v),
                           Tail(msgs))

convert_claude_to_gemini(src) ==
    IF ~is_valid_source(src)
    THEN [chunks |-> <<>>, stats |-> ZeroStats, exc |-> "ValueError"]
    ELSE fold_messages([chunks |-> <<>>, stats |-> ZeroStats, exc |-> ""],
                       get(src.v, "chat_messages", <<>>))

-----------------------------------------------------------------------------
(* The page script around the conversion *)

\* The scan for thinking segments of the source data preview: whether one
\* is met, and the class of the exception the scan raises ("" when none).
RECURSIVE scan_segments(_)
scan_segments(segs) ==
    IF segs = <<>> THEN FALSE
    ELSE IF get(Head(segs), "type", "") = "thinking" THEN TRUE
    ELSE scan_segments(Tail(segs))

RECURSIVE scan_messages(_)
scan_messages(msgs) ==
    IF msgs = <<>> THEN [has_thinking |-> FALSE, exc |-> ""]
    ELSE LET content == get(Head(msgs), "content", JList(<<>>)) IN
         IF content.t # "list" THEN [has_thinking |-> FALSE, exc |-> "TypeError"]
         ELSE IF scan_segments(content.v) THEN [has_thinking |-> TRUE, exc |-> ""]
         ELSE scan_messages(Tail(msgs))

source_preview(src) ==
    IF src.t \in {"null", "num"}
    THEN [has_thinking |-> FALSE, message_count |-> 0, exc |-> "TypeError"]
    ELSE IF src.t # "dict"
    THEN [has_thinking |-> FALSE, message_count |-> 0, exc |-> "AttributeError"]
    ELSE LET msgs == get(src.v, "chat_messages", <<>>)
             scan == scan_messages(msgs)
         IN  [has_thinking |-> scan.has_thinking,
              message_count |-> IF scan.exc = "" THEN Len(msgs) ELSE 0,
              exc |-> scan.exc]

\* str.replace(old, new): every non-overlapping occurrence, left to right
RECURSIVE replace(_, _, _)
replace(s, old, new) ==
    IF Len(s) < Len(old) THEN s
    ELSE IF SubSeq(s, 1, Len(old)) = old
         THEN new \o replace(SubSeq(s, Len(old) + 1, Len(s)), old, new)
         ELSE SubSeq(s, 1, 1) \o replace(Tail(s), old, new)

\* str.endswith(suffix)
endswith(s, suffix) ==
    /\ Len(s) >= Len(suffix)
    /\ SubSeq(s, Len(s) - Len(suffix) + 1, Len(s)) = suffix

\* the name given to the download button
derive_output_filename(name) ==
    LET replaced == replace(name, ".json", "_gemini.json")
    IN  IF ~endswith(replaced, "_gemini.json")
        THEN replaced \o "_gemini.json"
        ELSE replaced

\* the message the except clauses show for an exception class
error_shown(e) ==
    IF e = "KeyError" THEN "missing_field" ELSE "unexpected_error"

-----------------------------------------------------------------------------
(* Inputs *)

Segs ==
    {[type |-> "image"],
     [text |-> JStr("a")],
     [type |-> "text"],
     [type |-> "text", text |-> JNull],
     [type |-> "text", text |-> JStr(" b c\t")],
     [type |-> "thinking", thinking |-> JStr("\t ")],
     [type |-> "thinking", thinking |-> JStr(" a ")]}

\* how a message of the explored documents is built: around one segment or
\* more, or with no segment
ListKinds == {"human", "assistant", "system"}
EmptyKinds == {"bare", "null_content", "no_sender"}

Message(kind, segs) ==
    CASE kind = "human" -> [uuid |-> "m", sender |-> "human", content |-> JList(segs)]
      [] kind = "assistant" -> [uuid |-> "m", sender |-> "assistant", content |-> JList(segs)]
      [] kind = "system" -> [uuid |-> "m", sender |-> "system", content |-> JList(segs)]
      [] kind = "bare" -> [uuid |-> "m", sender |-> "human"]
      [] kind = "null_content" -> [uuid |-> "m", sender |-> "assistant", content |-> JNull]
      [] kind = "no_sender" ->
            [uuid |-> "m", content |-> JList(<<[type |-> "text", text |-> JStr("a")]>>)]

RECURSIVE SumSeq(_)
SumSeq(q) == IF q = <<>> THEN 0 ELSE Head(q) + SumSeq(Tail(q))

\* the message list that cuts segs into messages of the lengths lens
MessageList(kinds, lens, segs) ==
    [i \in 1..Len(lens) |->
        LET start == SumSeq(SubSeq(lens, 1, i - 1))
        IN  Message(kinds[i], SubSeq(segs, start + 1, start + lens[i]))]

SampleMessages ==
    <<[uuid |-> "m", sender |-> "human",
       content |-> JList(<<[type |-> "text", text |-> JStr("a")]>>)]>>

\* sources the guard of the conversion rejects
InvalidSources ==
    {[t |-> "dict", v |-> [name |-> "chat"]],
     [t |-> "dict", v |-> [name |-> "chat", messages |-> SampleMessages]],
     [t |-> "list", v |-> SampleMessages],
     [t |-> "list", v |-> <<>>],
     [t |-> "null", v |-> <<>>],
     [t |-> "num", v |-> <<>>],
     [t |-> "str", v |-> <<>>]}

\* source_data is a document of at most MaxMsgs messages and MaxSegs segments
IsExploredDocument ==
    \E k \in 0..MaxMsgs, n \in 0..MaxSegs :
      \E lens \in [1..k -> 0..n] :
        /\ SumSeq(lens) = n
        /\ \E kinds \in [1..k -> ListKinds \cup EmptyKinds] :
              /\ \A i \in 1..k : kinds[i] \in EmptyKinds <=> lens[i] = 0
              /\ \E segs \in [1..n -> Segs] :
                    source_data =
                        [t |-> "dict",
                         v |-> [chat_messages |-> MessageList(kinds, lens, segs)]]

Pieces == {"a", ".", "json", ".json", "_gemini", ".JSON", ".txt"}

RECURSIVE NamesOf(_)
NamesOf(n) ==
    IF n = 0 THEN {""}
    ELSE LET shorter == NamesOf(n - 1)
         IN  shorter \cup {x \o p : x \in shorter, p \in Pieces}

Names == NamesOf(MaxPieces) \ {""}

-----------------------------------------------------------------------------
(* The state machine *)

Locals ==
    /\ mi = 0 /\ si = 0 /\ role = "" /\ chunks = <<>>
    /\ token_stats = ZeroStats /\ exc = ""
    /\ preview = [has_thinking |-> FALSE, message_count |-> 0]
    /\ ui = "" /\ output_filename = ""

\* every explored document converted through the page, and every source the
\* guard rejects both through the page and by a direct call
Init ==
    /\ file_name = "chat.json"
    /\ \/ caller \in {"call", "upload"} /\ source_data \in InvalidSources
       \/ caller = "upload" /\ IsExploredDocument
    /\ pc = IF caller = "call" THEN "call" ELSE "uploaded"
    /\ Locals

\* every file name, with one document, through the page
InitNames ==
    /\ caller = "upload"
    /\ file_name \in Names
    /\ source_data = [t |-> "dict", v |-> [chat_messages |-> SampleMessages]]
    /\ pc = "uploaded"
    /\ Locals

\* the script up to the convert button: file details, metadata, preview
Preview ==
    /\ pc = "uploaded"
    /\ LET p == source_preview(source_data) IN
       /\ preview' = [has_thinking |-> p.has_thinking, message_count |-> p.message_count]
       /\ exc' = p.exc
       /\ pc' = IF p.exc = "" THEN "call" ELSE "preview_raised"
    /\ UNCHANGED <<caller, file_name, source_data, mi, si, role, chunks,
                   token_stats, ui, output_filename>>

\* entry of convert_claude_to_gemini: the guard, then the empty result
Validate ==
    /\ pc = "call"
    /\ IF is_valid_source(source_data)
       THEN /\ pc' = "for_msg"
            /\ exc' = ""
       ELSE /\ pc' = "raised"
            /\ exc' = "ValueError"
    /\ chunks' = <<>>
    /\ token_stats' = ZeroStats
    /\ UNCHANGED <<caller, file_name, source_data, mi, si, role, preview, ui,
                   output_filename>>

\* the outer loop takes the next message, or the function returns
ForMessage ==
    /\ pc = "for_msg"
    /\ IF mi = Len(Messages)
       THEN /\ pc' = "returned"
            /\ UNCHANGED <<mi, si, role, token_stats, exc>>
       ELSE LET msg == Messages[mi + 1] IN
            IF "sender" \notin DOMAIN msg
            THEN /\ pc' = "raised"
                 /\ exc' = "KeyError"
                 /\ mi' = mi + 1
                 /\ UNCHANGED <<si, role, token_stats>>
            ELSE /\ mi' = mi + 1
                 /\ si' = 0
                 /\ role' = role_of(msg["sender"])
                 /\ token_stats' = [token_stats EXCEPT !.message_count = @ + 1]
                 /\ IF get(msg, "content", JList(<<>>)).t # "list"
                    THEN pc' = "raised" /\ exc' = "TypeError"
                    ELSE pc' = "for_seg" /\ exc' = ""
    /\ UNCHANGED <<caller, file_name, source_data, chunks, preview, ui,
                   output_filename>>

\* the inner loop takes the next segment, or the message is finished
ForSegment ==
    /\ pc = "for_seg"
    /\ LET content == Content(Messages[mi]) IN
       IF si = Len(content)
       THEN /\ pc' = "for_msg"
            /\ UNCHANGED <<si, chunks, token_stats, exc>>
       ELSE LET r == segment_body(chunks, token_stats, role, content[si + 1]) IN
            /\ si' = si + 1
            /\ chunks' = r.chunks
            /\ token_stats' = r.stats
            /\ exc' = r.exc
            /\ pc' = IF r.exc = "" THEN "for_seg" ELSE "raised"
    /\ UNCHANGED <<caller, file_name, source_data, mi, role, preview, ui,
                   output_filename>>

\* the script after a successful conversion: previews, statistics, download button
Render ==
    /\ pc = "returned"
    /\ caller = "upload"
    /\ pc' = "done"
    /\ ui' = "download"
    /\ output_filename' = derive_output_filename(file_name)
    /\ UNCHANGED <<caller, file_name, source_data, mi, si, role, chunks,
                   token_stats, exc, preview>>

\* the except clauses of the script
Except ==
    /\ pc \in {"preview_raised", "raised"}
    /\ caller = "upload"
    /\ pc' = "done"
    /\ ui' = error_shown(exc)
    /\ UNCHANGED <<caller, file_name, source_data, mi, si, role, chunks,
                   token_stats, exc, preview, output_filename>>

Next == Preview \/ Validate \/ ForMessage \/ ForSegment \/ Render \/ Except

Spec == Init /\ [][Next]_vars

NextNames == Preview \/ Validate \/ ForMessage \/ ForSegment \/ Render

SpecNames == InitNames /\ [][NextNames]_vars

TypeOK ==
    /\ pc \in {"uploaded", "preview_raised", "call", "for_msg", "for_seg",
              "returned", "raised", "done"}
    /\ exc \in {"", "ValueError", "KeyError", "TypeError", "AttributeError"}

-----------------------------------------------------------------------------
(* What the claims speak of, stated from the document alone *)

\* the text between the first and the last non-whitespace character
Trimmed(s) ==
    LET solid == {i \in 1..Len(s) : SubSeq(s, i, i) \notin Whitespace}
    IN  IF solid = {} THEN ""
        ELSE SubSeq(s, CHOOSE i \in solid : \A j \in solid : i <= j,
                       CHOOSE i \in solid : \A j \in solid : i >= j)

\* the segments of a message, in order, each with the sender of its message
SegsOf(msg) ==
    LET c == get(msg, "content", JList(<<>>))
    IN  IF c.t = "list" THEN c.v ELSE <<>>

PairsOf(msg) ==
    [i \in 1..Len(SegsOf(msg)) |->
        [sender |-> get(msg, "sender", ""), seg |-> SegsOf(msg)[i]]]

RECURSIVE Pairs(_)
Pairs(msgs) ==
    IF msgs = <<>> THEN <<>> ELSE PairsOf(Head(msgs)) \o Pairs(Tail(msgs))

\* the traversal is under way or has returned, and nothing was raised
Traversing == pc \in {"for_msg", "for_seg", "returned"}

\* the conversion has returned its result
Returned == pc = "returned"

\* the segments the traversal has been through, in encounter order
Processed ==
    IF pc = "for_seg"
    THEN Pairs(SubSeq(Messages, 1, mi - 1)) \o SubSeq(PairsOf(Messages[mi]), 1, si)
    ELSE Pairs(SubSeq(Messages, 1, mi))

TypeIs(seg, ty) == "type" \in DOMAIN seg /\ seg["type"] = ty

\* the text a text or thinking segment carries, "" when it carries none
TextOf(seg) ==
    LET raw == IF TypeIs(seg, "thinking") THEN get(seg, "thinking", JStr(""))
               ELSE get(seg, "text", JStr(""))
    IN  IF raw.t = "str" THEN raw.v ELSE ""

\* a text or thinking segment whose trimmed text is not empty
NonEmpty(pair) ==
    /\ TypeIs(pair.seg, "text") \/ TypeIs(pair.seg, "thinking")
    /\ Trimmed(TextOf(pair.seg)) # ""

\* a text or thinking segment whose text is empty or only whitespace
Blank(seg) ==
    /\ TypeIs(seg, "text") \/ TypeIs(seg, "thinking")
    /\ Trimmed(TextOf(seg)) = ""

Emitting == SelectSeq(Processed, NonEmpty)

RECURSIVE TokenSum(_)
TokenSum(pairs) ==
    IF pairs = <<>> THEN 0
    ELSE count_tokens(Trimmed(TextOf(Head(pairs).seg))) + TokenSum(Tail(pairs))

HumanText(pair) == TypeIs(pair.seg, "text") /\ pair.sender = "human"
OtherText(pair) == TypeIs(pair.seg, "text") /\ pair.sender # "human"
Thinking(pair) == TypeIs(pair.seg, "thinking")

\* the source is a mapping that has a chat_messages key
HasChatMessages ==
    IF source_data.t = "dict" THEN "chat_messages" \in DOMAIN source_data.v ELSE FALSE

\* every message has a sender and every segment a type
StrictFieldsPresent ==
    /\ \A i \in 1..Len(Messages) : "sender" \in DOMAIN Messages[i]
    /\ \A i \in 1..Len(Pairs(Messages)) : "type" \in DOMAIN Pairs(Messages)[i].seg

-----------------------------------------------------------------------------
(* Claims *)

\* C1: total_tokens equals user_tokens + model_tokens + thinking_tokens in
\* the returned statistics and after every segment processed on the way.
C1_TotalIsSumOfBuckets ==
    token_stats.total_tokens =
        token_stats.user_tokens + token_stats.model_tokens + token_stats.thinking_tokens

C1_Witness ==
    /\ Returned
    /\ token_stats.user_tokens > 0
    /\ token_stats.thinking_tokens > 0
    /\ C1_TotalIsSumOfBuckets

\* C2: a source that is not a mapping, or a mapping without chat_messages,
\* makes the call fail with ValueError before any message is inspected, any
\* token counted or any chunk built, and nothing is returned.
C2_InvalidSourceRejected ==
    ~HasChatMessages =>
        /\ pc \notin {"for_msg", "for_seg", "returned"}
        /\ pc = "raised" => exc = "ValueError"
        /\ caller = "call" /\ pc # "call" => pc = "raised"
        /\ mi = 0 /\ si = 0
        /\ chunks = <<>>
        /\ token_stats = ZeroStats
        /\ ui # "download" /\ output_filename = ""

C2_Witness ==
    /\ pc = "raised" /\ exc = "ValueError"
    /\ source_data.t = "dict"
    /\ "messages" \in DOMAIN source_data.v

\* C3: a message without sender, or a segment without type, makes the
\* conversion fail with KeyError and return nothing, and the page offers no
\* download.
C3_MissingStrictFieldIsKeyError ==
    HasChatMessages /\ ~StrictFieldsPresent =>
        /\ ~Returned /\ ui # "download"
        /\ pc = "raised" => exc = "KeyError"

\* C4: a source with chat_messages, a sender in every message and a type in
\* every segment never makes the conversion raise, whatever its content,
\* text and thinking fields hold.
C4_NeverRaisesOnOtherShapes ==
    HasChatMessages /\ StrictFieldsPresent => pc # "raised"

\* C5: the chunks follow segment encounter order: the k-th chunk carries the
\* trimmed text of the k-th text or thinking segment whose trimmed text is
\* not empty, and no other segment yields a chunk.
C5_ChunksFollowEncounterOrder ==
    Traversing =>
        /\ Len(chunks) = Len(Emitting)
        /\ \A k \in 1..Len(chunks) :
              chunks[k]["text"] = Trimmed(TextOf(Emitting[k].seg))

C5_Witness ==
    /\ Returned
    /\ Len(Messages) = 1
    /\ Len(chunks) = 2
    /\ "isThought" \in DOMAIN chunks[1]
    /\ "finishReason" \in DOMAIN chunks[2]
    /\ chunks[1]["text"] # chunks[2]["text"]

\* C6: a chunk has role "user" exactly when its message's sender is "human"
\* and role "model" otherwise; isThought: true exactly on chunks of thinking
\* segments; finishReason "STOP" exactly on model chunks that are not
\* thoughts.
C6_RoleThoughtAndFinishReason ==
    Traversing /\ Len(chunks) = Len(Emitting) =>
        \A k \in 1..Len(chunks) :
            LET chunk == chunks[k]
                from == Emitting[k]
            IN  /\ chunk["role"] = (IF from.sender = "human" THEN "user" ELSE "model")
                /\ "isThought" \in DOMAIN chunk <=> TypeIs(from.seg, "thinking")
                /\ "isThought" \in DOMAIN chunk => chunk["isThought"] = TRUE
                /\ "finishReason" \in DOMAIN chunk <=>
                      chunk["role"] = "model" /\ ~TypeIs(from.seg, "thinking")
                /\ "finishReason" \in DOMAIN chunk => chunk["finishReason"] = "STOP"

C6_Witness ==
    /\ Returned
    /\ Len(chunks) = 2
    /\ chunks[1]["role"] = "user" /\ "isThought" \in DOMAIN chunks[1]
    /\ chunks[2]["role"] = "model" /\ "finishReason" \in DOMAIN chunks[2]
    /\ Emitting[2].sender = "system"

\* C7: has_thinking is true exactly when a thinking segment gone through had
\* non-empty trimmed text, and once set it is never cleared.
C7_HasThinkingIff ==
    /\ [](Traversing =>
            (token_stats.has_thinking <=>
                \E k \in 1..Len(Processed) :
                    Thinking(Processed[k]) /\ NonEmpty(Processed[k])))
    /\ [][token_stats.has_thinking => token_stats'.has_thinking]_vars

C7_Witness ==
    /\ Returned
    /\ token_stats.has_thinking
    /\ Len(chunks) = 1
    /\ \E k \in 1..Len(Processed) : Thinking(Processed[k]) /\ ~NonEmpty(Processed[k])

\* C8: user_tokens sums the token counts of the text segments of human
\* messages, model_tokens those of the text segments of other messages, and
\* thinking_tokens those of the thinking segments whatever the sender.
C8_TokenBuckets ==
    Traversing =>
        /\ token_stats.user_tokens = TokenSum(SelectSeq(Processed, HumanText))
        /\ token_stats.model_tokens = TokenSum(SelectSeq(Processed, OtherText))
        /\ token_stats.thinking_tokens = TokenSum(SelectSeq(Processed, Thinking))

C8_Witness ==
    /\ Returned
    /\ Len(Messages) = 1 /\ Messages[1]["sender"] = "human"
    /\ token_stats.thinking_tokens = 1
    /\ token_stats.user_tokens = 2
    /\ token_stats.model_tokens = 0

\* the document with segment j of message i removed
WithoutSegment(src, i, j) ==
    LET msgs == src.v["chat_messages"]
        segs == SegsOf(msgs[i])
        cut == SubSeq(segs, 1, j - 1) \o SubSeq(segs, j + 1, Len(segs))
    IN  [src EXCEPT !.v = setitem(src.v, "chat_messages",
            [msgs EXCEPT ![i] = setitem(msgs[i], "content", JList(cut))])]

\* the document with segment b added after segment j of message i
WithSegment(src, i, j, b) ==
    LET msgs == src.v["chat_messages"]
        segs == SegsOf(msgs[i])
        more == SubSeq(segs, 1, j) \o <<b>> \o SubSeq(segs, j + 1, Len(segs))
    IN  [src EXCEPT !.v = setitem(src.v, "chat_messages",
            [msgs EXCEPT ![i] = setitem(msgs[i], "content", JList(more))])]

BlankSegs ==
    {[type |-> "text"],
     [type |-> "text", text |-> JStr("")],
     [type |-> "text", text |-> JStr("\t ")],
     [type |-> "thinking"],
     [type |-> "thinking", thinking |-> JStr("")],
     [type |-> "thinking", thinking |-> JStr(" ")]}

\* C9: a text or thinking segment whose text is empty or only whitespace
\* yields no chunk and no token: removing it from the document, or adding
\* one anywhere, leaves the returned chunks and statistics unchanged; and
\* every chunk's text is non-empty without leading or trailing whitespace.
C9_BlankSegmentsContributeNothing ==
    Returned =>
        LET result == [chunks |-> chunks, stats |-> token_stats, exc |-> ""] IN
        /\ \A i \in 1..Len(Messages) :
              /\ \A j \in 1..Len(SegsOf(Messages[i])) :
                    Blank(SegsOf(Messages[i])[j]) =>
                        convert_claude_to_gemini(WithoutSegment(source_data, i, j)) = result
              /\ \A j \in 0..Len(SegsOf(Messages[i])), b \in BlankSegs :
                    convert_claude_to_gemini(WithSegment(source_data, i, j, b)) = result
        /\ \A k \in 1..Len(chunks) :
              /\ chunks[k]["text"] # ""
              /\ Head(chunks[k]["text"]) \notin Whitespace
              /\ LastChar(chunks[k]["text"]) \notin Whitespace

C9_Witness ==
    /\ Returned
    /\ Len(chunks) = 1
    /\ chunks[1]["text"] = "b c"
    /\ \E k \in 1..Len(Processed) : Blank(Processed[k].seg)

\* the download name the file name stands for
ExpectedOutputFilename(name) ==
    IF endswith(name, ".json")
    THEN SubSeq(name, 1, Len(name) - Len(".json")) \o "_gemini.json"
    ELSE name \o "_gemini.json"

\* C10: the download name is the uploaded name with its .json suffix replaced
\* by _gemini.json, or with _gemini.json appended when it has no .json
\* suffix; the rest of the name is carried over unchanged.
C10_OutputFilename ==
    ui = "download" => output_filename = ExpectedOutputFilename(file_name)

====
